---- MODULE Spec2Model ----
(***************************************************************************)
(* The KK account-profile backend: three builds of server.js sharing one   *)
(* Postgres table "users".                                                  *)
(*   variant = "token": src/server.js and src/unnamed/part_001 (Firebase    *)
(*             ID-token verifier, upsert PUT /me); the two files have the   *)
(*             same requireAuth and the same /me handlers.                  *)
(*   variant = "otp":   src/unnamed/part_000 (Twilio Verify OTP flow,       *)
(*             update-only PUT /me).                                        *)
(* A request is a process that runs from one await to the next; the         *)
(* database executes each statement atomically, in its own transaction.    *)
(***************************************************************************)
EXTENDS Integers, Sequences, FiniteSets, TLC

\* ------------------------------------------------------------ bounds
\* The database runs the transactions that start before this time (one unit
\* = one tick of timestamptz).
MaxClock == 3

\* Request processes that can be in flight at the same time.
Slots == {1, 2}

\* ------------------------------------------------------- JS values
Undefined == [t |-> "undefined", s |-> <<>>, n |-> 0]
Null == [t |-> "null", s |-> <<>>, n |-> 0]
Str(x) == [t |-> "string", s |-> x, n |-> 0]
Num(k) == [t |-> "number", s |-> <<>>, n |-> k]

\* !v
Falsy(v) ==
    \/ v.t \in {"undefined", "null"}
    \/ v.t = "string" /\ v.s = <<>>
    \/ v.t = "number" /\ v.n = 0

\* a || b
OrElse(a, b) == IF Falsy(a) THEN b ELSE a

\* a ?? b
Nullish(a, b) == IF a.t \in {"undefined", "null"} THEN b ELSE a

\* s.startsWith(p), s and p character sequences
startsWith(s, p) == Len(s) >= Len(p) /\ SubSeq(s, 1, Len(p)) = p

\* s.slice(k)
slice(s, k) == SubSeq(s, k + 1, Len(s))

\* `${v}` for the values a phone can be
TemplateString(v) ==
    IF v.t = "string" THEN v.s
    ELSE IF v.t = "undefined" THEN <<"u", "n", "d", "e", "f", "i", "n", "e", "d">>
    ELSE <<"n", "u", "l", "l">>

\* const toE164 = (s) => (s?.startsWith('+') ? s : `+${s}`);
toE164(v) ==
    IF v.t = "string" /\ startsWith(v.s, <<"+">>) THEN v
    ELSE Str(<<"+">> \o TemplateString(v))

\* ------------------------------------------------------- inputs
\* 'Bearer '
Bearer == <<"B", "e", "a", "r", "e", "r", " ">>

\* Authorization headers a caller sends: none, another scheme, an empty
\* bearer credential, and bearer tokens "a", "b", "c", "x".
Headers ==
    {Undefined, Str(<<"B", "a">>), Str(Bearer)}
        \cup {Str(Bearer \o <<c>>) : c \in {"a", "b", "c", "x"}}

\* Phone strings a caller supplies in ?phone= or in the body.
CallerPhones == {Undefined, Str(<<>>), Str(<<"6">>), Str(<<"+", "6">>)}

\* Request bodies' patchable fields; an omitted field is undefined.
PatchA ==
    [fullName |-> Str(<<"A">>), age |-> Num(0),
     address |-> Undefined, avatarUrl |-> Undefined]
PatchB ==
    [fullName |-> Undefined, age |-> Undefined,
     address |-> Str(<<"R">>), avatarUrl |-> Str(<<"u">>)]
NoPatch ==
    [fullName |-> Undefined, age |-> Undefined,
     address |-> Undefined, avatarUrl |-> Undefined]
Patches == {PatchA, PatchB}

Codes == {Undefined, Str(<<"1">>)}

\* ------------------------------------------- external collaborators
NoAuth == [phone_number |-> Undefined, phoneNumber |-> Undefined]

\* What admin.auth().verifyIdToken(token) can resolve to: the decoded claims
\* of a token the issuer signed ("a": phone_number, "b": phoneNumber only,
\* "c": no phone claim); any other token is rejected.
DecodedClaims(token) ==
    IF token = <<"a">> THEN {[phone_number |-> Str(<<"+", "6">>), phoneNumber |-> Undefined]}
    ELSE IF token = <<"b">> THEN {[phone_number |-> Undefined, phoneNumber |-> Str(<<"+", "7">>)]}
    ELSE IF token = <<"c">> THEN {NoAuth}
    ELSE {}

\* twilio.verify ... verificationChecks.create(...).status, or a thrown error
TwilioCheckOutcomes == {"approved", "pending", "throws"}

\* twilio.verify ... verifications.create(...): resolves or throws
TwilioStartOutcomes == {"ok", "throws"}

\* ------------------------------------------------------ the database
\* Values of users.phone the inputs can produce.
PhoneKeys == {Str(<<"+", "6">>), Str(<<"6">>), Str(<<"+", "7">>)}

\* create trigger trg_users_updated before update on users
\*   for each row execute procedure set_updated_at();
set_updated_at_stale(new, now) == new

set_updated_at(new, now) == [new EXCEPT !.updated_at = now]

\* The rows a "where phone=$1" matches.
RowsByPhone(tbl, phone) == {u \in tbl : u.phone = phone}

\* insert into users (phone, ...) values (...): id from the serial's
\* sequence, created_at and updated_at default now().
InsertedRow(id, phone, vals, now) ==
    [id |-> id, phone |-> phone,
     full_name |-> vals.full_name, age |-> vals.age,
     address |-> vals.address, avatar_url |-> vals.avatar_url,
     created_at |-> now, updated_at |-> now]

NullVals == [full_name |-> Null, age |-> Null, address |-> Null, avatar_url |-> Null]

\* The set-list "full_name = .., age = .., address = .., avatar_url = .."
\* applied to a row, then the before-update trigger.
UpdateProfileColumns_partial(old, vals, now) ==
    set_updated_at(
        [old EXCEPT !.full_name = IF vals.full_name = Null THEN @ ELSE vals.full_name,
                    !.age = IF vals.age = Null THEN @ ELSE vals.age,
                    !.address = IF vals.address = Null THEN @ ELSE vals.address,
                    !.avatar_url = IF vals.avatar_url = Null THEN @ ELSE vals.avatar_url],
        now)

UpdateProfileColumns(old, vals, now) ==
    set_updated_at(
        [old EXCEPT !.full_name = vals.full_name, !.age = vals.age,
                    !.address = vals.address, !.avatar_url = vals.avatar_url],
        now)

\* The set-list "phone = excluded.phone" applied to a row, then the trigger.
UpdatePhoneColumn(old, phone, now) == set_updated_at([old EXCEPT !.phone = phone], now)

\* A statement's outcome: the error it raised, the rows it returns, the
\* table and the sequence after it.
Outcome(err, rows, tbl, seq) == [err |-> err, rows |-> rows, users |-> tbl, seq |-> seq]

\* select * from users where phone=$1
SqlSelect(tbl, seq, phone) == Outcome("none", RowsByPhone(tbl, phone), tbl, seq)

\* insert into users (phone, full_name, age, address, avatar_url)
\* values ($1..$5) on conflict (phone) do update set <profile columns>
\* returning *
\* The serial's nextval is taken before the conflict is detected.
SqlUpsert(tbl, seq, phone, vals, now) ==
    IF RowsByPhone(tbl, phone) = {}
    THEN LET row == InsertedRow(seq + 1, phone, vals, now)
         IN Outcome("none", {row}, tbl \cup {row}, seq + 1)
    ELSE LET old == CHOOSE u \in RowsByPhone(tbl, phone) : TRUE
             new == UpdateProfileColumns(old, vals, now)
         IN Outcome("none", {new}, (tbl \ {old}) \cup {new}, seq + 1)

\* insert into users (phone) values ($1)
\* on conflict (phone) do update set phone = excluded.phone returning *
SqlInsertPhone(tbl, seq, phone, now) ==
    IF RowsByPhone(tbl, phone) = {}
    THEN LET row == InsertedRow(seq + 1, phone, NullVals, now)
         IN Outcome("none", {row}, tbl \cup {row}, seq + 1)
    ELSE LET old == CHOOSE u \in RowsByPhone(tbl, phone) : TRUE
             new == UpdatePhoneColumn(old, phone, now)
         IN Outcome("none", {new}, (tbl \ {old}) \cup {new}, seq + 1)

\* update users set full_name=$1, age=$2, address=$3, avatar_url=$4
\* where phone=$5 returning *
SqlUpdate(tbl, seq, phone, vals, now) ==
    LET hit == RowsByPhone(tbl, phone)
        new == {UpdateProfileColumns(u, vals, now) : u \in hit}
    IN Outcome("none", new, (tbl \ hit) \cup new, seq)

NoStmt == [kind |-> "none", phone |-> Null, vals |-> NullVals]

\* The statement a handler passed to pool.query, executed at transaction
\* time now.
ExecStmt(tbl, seq, stmt, now) ==
    CASE stmt.kind = "select" -> SqlSelect(tbl, seq, stmt.phone)
      [] stmt.kind = "upsert" -> SqlUpsert(tbl, seq, stmt.phone, stmt.vals, now)
      [] stmt.kind = "insert_phone" -> SqlInsertPhone(tbl, seq, stmt.phone, now)
      [] stmt.kind = "update" -> SqlUpdate(tbl, seq, stmt.phone, stmt.vals, now)

\* ------------------------------------------------------------ state
VARIABLES
    variant,        \* which server.js is deployed: "token" or "otp"
    AUTH_REQUIRED,  \* process.env.AUTH_REQUIRED !== 'false' (token variant)
    users,          \* the rows of table users
    users_id_seq,   \* last value of the serial behind users.id
    clock,          \* the database clock: what now() reads at transaction start
    req,            \* the request each slot is serving, and how far it is
    reply,          \* the request the last step answered, with its response
    lastWrite,      \* history: per phone, the last statement that wrote its row
    lastPutRow,     \* history: per phone, the row the last PUT /me answered with
    approved        \* history: the phone strings /auth/verify answered a user for

vars ==
    <<variant, AUTH_REQUIRED, users, users_id_seq, clock, req, reply,
      lastWrite, lastPutRow, approved>>

NoWrite == [w |-> "none", patch |-> NoPatch]

Idle ==
    [pc |-> "idle", route |-> "none", authorization |-> Undefined,
     phone |-> Undefined, patch |-> NoPatch, code |-> Undefined,
     token |-> Null, auth |-> NoAuth, stmt |-> NoStmt, now |-> 0,
     status |-> 0, body |-> Null, err |-> "none", verdict |-> "none",
     ran |-> FALSE, nVerify |-> 0, nQuery |-> 0, nResp |-> 0, wrote |-> FALSE,
     seen |-> NoWrite, prev |-> Null]

Err(e) == [error |-> e]

\* res.status(status).json(body); the answered request keeps what the
\* properties read of it.
Respond(R, status, body) ==
    [R EXCEPT !.pc = "done", !.status = status, !.body = body, !.nResp = @ + 1,
              !.now = 0, !.token = Null, !.code = Undefined]

\* ------------------------------------------------------- middleware
Pass(act, token, status, body) ==
    [act |-> act, token |-> token, status |-> status, body |-> body]

requireAuth_noTokenCheck(authRequired, authorization) ==
    IF ~authRequired THEN Pass("next", Null, 0, Null)
    ELSE LET auth == OrElse(authorization, Str(<<>>))
             token == IF startsWith(auth.s, Bearer) THEN Str(slice(auth.s, 7)) ELSE Null
         IN Pass("verify", token, 0, Null)

\* requireAuth up to its await: next(), a 401, or a call of the verifier.
requireAuth(authRequired, authorization) ==
    IF ~authRequired THEN Pass("next", Null, 0, Null)
    ELSE LET auth == OrElse(authorization, Str(<<>>))
             token == IF startsWith(auth.s, Bearer) THEN Str(slice(auth.s, 7)) ELSE Null
         IN IF Falsy(token) THEN Pass("respond", Null, 401, Err("missing_token"))
            ELSE Pass("verify", token, 0, Null)

\* -------------------------------------------------------- handlers
mePhone_callerFirst(v, authRequired, auth, callerPhone) ==
    OrElse(callerPhone, OrElse(auth.phone_number, auth.phoneNumber))

\* The phone GET /me and PUT /me work on: from the verified token, or from
\* ?phone= / body.phone.
mePhone(v, authRequired, auth, callerPhone) ==
    IF v = "otp" THEN callerPhone
    ELSE IF authRequired THEN OrElse(OrElse(auth.phone_number, auth.phoneNumber), Null)
    ELSE OrElse(callerPhone, Null)

putVals_falsyToNull(patch) ==
    [full_name |-> OrElse(patch.fullName, Null), age |-> OrElse(patch.age, Null),
     address |-> OrElse(patch.address, Null), avatar_url |-> OrElse(patch.avatarUrl, Null)]

\* [fullName ?? null, age ?? null, address ?? null, avatarUrl ?? null]
putVals(patch) ==
    [full_name |-> Nullish(patch.fullName, Null), age |-> Nullish(patch.age, Null),
     address |-> Nullish(patch.address, Null), avatar_url |-> Nullish(patch.avatarUrl, Null)]

\* pool.query(text, params): the statement is sent and its transaction starts,
\* which fixes now().
Query(R, stmt) ==
    [R EXCEPT !.pc = "xact", !.stmt = stmt, !.now = clock, !.nQuery = @ + 1,
              !.prev = IF R.route = "PUT /me" THEN lastPutRow[stmt.phone] ELSE Null]

getMe_touches(R) ==
    LET phone == mePhone(variant, AUTH_REQUIRED, R.auth, R.phone)
    IN IF Falsy(phone) THEN Respond(R, 400, Err("missing_phone"))
       ELSE Query(R, [kind |-> "insert_phone", phone |-> phone, vals |-> NullVals])

\* app.get('/me', ...) up to its await
getMe(R) ==
    LET phone == mePhone(variant, AUTH_REQUIRED, R.auth, R.phone)
    IN IF Falsy(phone) THEN Respond(R, 400, Err("missing_phone"))
       ELSE Query(R, [kind |-> "select", phone |-> phone, vals |-> NullVals])

\* app.put('/me', ...) up to its await
putMe(R) ==
    LET phone == mePhone(variant, AUTH_REQUIRED, R.auth, R.phone)
    IN IF Falsy(phone) THEN Respond(R, 400, Err("missing_phone"))
       ELSE Query(R, [kind |-> IF variant = "otp" THEN "update" ELSE "upsert",
                      phone |-> phone, vals |-> putVals(R.patch)])

\* app.post('/auth/start', ...) up to its await
authStart(R) ==
    IF Falsy(R.phone) THEN Respond(R, 400, Err("missing_phone"))
    ELSE [R EXCEPT !.pc = "twilio"]

\* app.post('/auth/verify', ...) up to its first await
authVerify(R) ==
    IF Falsy(R.phone) \/ Falsy(R.code) THEN Respond(R, 400, Err("missing_params"))
    ELSE [R EXCEPT !.pc = "twilio"]

\* Express enters the route's handler.
EnterHandler(R) ==
    LET H == [R EXCEPT !.ran = TRUE]
    IN CASE R.route = "GET /me" -> getMe(H)
         [] R.route = "PUT /me" -> putMe(H)
         [] R.route = "POST /auth/start" -> authStart(H)
         [] R.route = "POST /auth/verify" -> authVerify(H)

\* The catch block of each handler.
CatchError(route) ==
    CASE route = "GET /me" -> Err("me_failed")
      [] route = "PUT /me" -> Err("update_failed")
      [] route = "POST /auth/start" -> Err("start_failed")
      [] route = "POST /auth/verify" -> Err("verify_failed")

\* r.rows[0] || null (a row object is truthy)
FirstRowOrNull(rows) == IF rows = {} THEN Null ELSE CHOOSE u \in rows : TRUE

\* The handler after its query settled: res.json(...) or the catch block.
AfterQuery(R, err, rows) ==
    IF err # "none" THEN Respond([R EXCEPT !.err = err], 500, CatchError(R.route))
    ELSE IF R.route = "POST /auth/verify"
         THEN Respond(R, 200, [user |-> FirstRowOrNull(rows)])
         ELSE Respond(R, 200, FirstRowOrNull(rows))

Routes == IF variant = "otp"
          THEN {"GET /me", "PUT /me", "POST /auth/start", "POST /auth/verify"}
          ELSE {"GET /me", "PUT /me"}

\* ---------------------------------------------------------- actions
Init ==
    /\ variant \in {"token", "otp"}
    /\ AUTH_REQUIRED \in (IF variant = "token" THEN BOOLEAN ELSE {FALSE})
    /\ users = {}
    /\ users_id_seq = 0
    /\ clock = 0
    /\ req = [i \in Slots |-> Idle]
    /\ reply = Idle
    /\ lastWrite = [p \in PhoneKeys |-> NoWrite]
    /\ lastPutRow = [p \in PhoneKeys |-> Null]
    /\ approved = {}

\* Slot i after a step of its request: still awaiting, or answered (the slot
\* is free again and the response is the step's reply).
Settle(i, R) ==
    /\ req' = [req EXCEPT ![i] = IF R.pc = "done" THEN Idle ELSE R]
    /\ reply' = IF R.pc = "done" THEN R ELSE Idle

\* A request arrives at slot i and runs to its first await: requireAuth
\* (token variant), then the handler unless requireAuth answered or awaits.
Request(i, route, authorization, phone, patch, code) ==
    /\ req[i].pc = "idle"
    /\ \A j \in Slots : j < i => req[j].pc # "idle"   \* free slots fill lowest first
    /\ LET R == [Idle EXCEPT !.route = route, !.authorization = authorization,
                             !.phone = phone, !.patch = patch, !.code = code]
           a == requireAuth(AUTH_REQUIRED, authorization)
       IN Settle(i, IF variant = "otp" THEN EnterHandler(R)
                    ELSE CASE a.act = "next" -> EnterHandler(R)
                           [] a.act = "respond" -> Respond(R, a.status, a.body)
                           [] a.act = "verify" ->
                                [R EXCEPT !.pc = "verifying", !.token = a.token,
                                          !.nVerify = @ + 1])
    /\ UNCHANGED <<variant, AUTH_REQUIRED, users, users_id_seq, clock, lastWrite, lastPutRow, approved>>

\* verifyIdToken rejects: the catch of requireAuth.
VerifyRejects(i) ==
    /\ req[i].pc = "verifying"
    /\ Settle(i, Respond([req[i] EXCEPT !.verdict = "rejected"], 401, Err("invalid_token")))
    /\ UNCHANGED <<variant, AUTH_REQUIRED, users, users_id_seq, clock, lastWrite, lastPutRow, approved>>

\* verifyIdToken resolves: req.auth = decoded; next() enters the handler.
VerifyResolves(i) ==
    /\ req[i].pc = "verifying"
    /\ req[i].token.t = "string"
    /\ \E decoded \in DecodedClaims(req[i].token.s) :
          Settle(i, EnterHandler([req[i] EXCEPT !.auth = decoded, !.verdict = "resolved"]))
    /\ UNCHANGED <<variant, AUTH_REQUIRED, users, users_id_seq, clock, lastWrite, lastPutRow, approved>>

\* The Twilio call of /auth/start or /auth/verify settles.
TwilioSettles(i) ==
    /\ req[i].pc = "twilio"
    /\ LET R == req[i]
       IN IF R.route = "POST /auth/start"
          THEN \E o \in TwilioStartOutcomes :
                 Settle(i, IF o = "ok" THEN Respond(R, 200, [ok |-> TRUE])
                           ELSE Respond(R, 500, CatchError(R.route)))
          ELSE \E o \in TwilioCheckOutcomes :
                 Settle(i, CASE o = "throws" -> Respond(R, 500, CatchError(R.route))
                             [] o = "pending" -> Respond(R, 401, Err("invalid_code"))
                             [] o = "approved" ->
                                  Query(R, [kind |-> "insert_phone",
                                            phone |-> toE164(R.phone),
                                            vals |-> NullVals]))
    /\ UNCHANGED <<variant, AUTH_REQUIRED, users, users_id_seq, clock, lastWrite, lastPutRow, approved>>

\* History kept for the properties: what the statement of R did to the row of
\* its phone, and what a PUT /me answered.
WriteNote(R) ==
    IF R.stmt.kind = "insert_phone" THEN [w |-> "other", patch |-> NoPatch]
    ELSE [w |-> "put", patch |-> R.patch]

Commit(i, out, answered) ==
    LET R == req[i]
        p == R.stmt.phone
        changed == out.users # users
    IN /\ users' = out.users
       /\ users_id_seq' = out.seq
       /\ clock' = clock + 1
       /\ Settle(i, [answered EXCEPT !.wrote = changed, !.seen = lastWrite[p]])
       /\ lastWrite' = IF changed THEN [lastWrite EXCEPT ![p] = WriteNote(R)]
                       ELSE lastWrite
       /\ lastPutRow' = IF R.route = "PUT /me" /\ answered.status = 200
                           /\ answered.body # Null
                        THEN [lastPutRow EXCEPT ![p] = answered.body]
                        ELSE lastPutRow
       /\ approved' = IF R.route = "POST /auth/verify" /\ answered.status = 200
                      THEN approved \cup {R.phone}
                      ELSE approved
       /\ UNCHANGED <<variant, AUTH_REQUIRED>>

\* The database executes the statement of slot i in one step, at the time its
\* transaction started; the commit takes at least one tick of the clock, and
\* the handler answers.
DbExec(i) ==
    /\ req[i].pc = "xact"
    /\ req[i].now < MaxClock
    /\ LET out == ExecStmt(users, users_id_seq, req[i].stmt, req[i].now)
       IN Commit(i, out, AfterQuery(req[i], out.err, out.rows))

\* pool.query rejects before the statement ran (no connection): catch block.
DbUnavailable(i) ==
    /\ req[i].pc = "xact"
    /\ Settle(i, AfterQuery(req[i], "unavailable", {}))
    /\ UNCHANGED <<variant, AUTH_REQUIRED, users, users_id_seq, clock, lastWrite, lastPutRow, approved>>

\* Time passes while a transaction is open. (With none open, the passing of
\* time only shifts the timestamps of the transactions that start later.)
Tick ==
    /\ clock < MaxClock
    /\ \E i \in Slots : req[i].pc = "xact"
    /\ clock' = clock + 1
    /\ reply' = Idle
    /\ UNCHANGED <<variant, AUTH_REQUIRED, users, users_id_seq, req, lastWrite, lastPutRow, approved>>

Verified == variant = "token" /\ AUTH_REQUIRED

PatchesOf(route) == IF route = "PUT /me" THEN Patches ELSE {NoPatch}

CodesOf(route) == IF route = "POST /auth/verify" THEN Codes ELSE {Undefined}

\* Requests that reach the store: a bearer token the issuer signed where
\* tokens are verified, a phone where the caller supplies it.
StoreHeaders == IF Verified THEN {Str(Bearer \o <<"a">>)} ELSE {Undefined}

StorePhones == IF Verified THEN {Undefined} ELSE {Str(<<"+", "6">>)}

StoreRoutes == Routes \ {"POST /auth/start"}

StoreCodes(route) == IF route = "POST /auth/verify" THEN {Str(<<"1">>)} ELSE {Undefined}

\* Any request: only requireAuth with AUTH_REQUIRED reads Authorization, and
\* with AUTH_REQUIRED no handler reads the caller's phone.
AnyHeaders == IF Verified THEN Headers ELSE {Undefined}

AnyPhones == IF Verified THEN {Undefined, Str(<<"6">>)} ELSE CallerPhones

\* Requests that reach the store, served concurrently.
Next ==
    \/ \E i \in Slots, route \in StoreRoutes, h \in StoreHeaders, p \in StorePhones :
          \E patch \in PatchesOf(route), code \in StoreCodes(route) :
            Request(i, route, h, p, patch, code)
    \/ \E i \in Slots : VerifyRejects(i)
    \/ \E i \in Slots : VerifyResolves(i)
    \/ \E i \in Slots : TwilioSettles(i)
    \/ \E i \in Slots : DbExec(i)
    \/ \E i \in Slots : DbUnavailable(i)
    \/ Tick

Spec == Init /\ [][Next]_vars

\* Any request, served one at a time.
NextSerial ==
    \/ \E route \in Routes, h \in AnyHeaders, p \in AnyPhones :
          \E patch \in PatchesOf(route), code \in CodesOf(route) :
            Request(1, route, h, p, patch, code)
    \/ VerifyRejects(1)
    \/ VerifyResolves(1)
    \/ TwilioSettles(1)
    \/ DbExec(1)
    \/ DbUnavailable(1)
    \/ Tick

SpecSerial == Init /\ [][NextSerial]_vars

\* ------------------------------------------------------- properties
Answered == reply.pc = "done"

IsMe(R) == R.route \in {"GET /me", "PUT /me"}

\* The value a profile field has after a full replace by a patch: the
\* patch's value, null for a field the patch omits.
Omitted(v) == IF v = Undefined THEN Null ELSE v

CarriesPatch(row, patch) ==
    /\ row.full_name = Omitted(patch.fullName)
    /\ row.age = Omitted(patch.age)
    /\ row.address = Omitted(patch.address)
    /\ row.avatar_url = Omitted(patch.avatarUrl)

\* The headers that carry a bearer credential.
HasCredential(h) == h \in {Str(Bearer \o <<c>>) : c \in {"a", "b", "c", "x"}}

\* The phone claim of the token a header carries, null when it has none.
PhoneClaim(h) ==
    IF h = Str(Bearer \o <<"a">>) THEN Str(<<"+", "6">>)
    ELSE IF h = Str(Bearer \o <<"b">>) THEN Str(<<"+", "7">>)
    ELSE Null

\* The request's handler never ran and the store was not touched for it.
Quiet(R) == ~R.ran /\ R.nQuery = 0 /\ ~R.wrote /\ R.nResp = 1

UniquePhones == \A p \in PhoneKeys : Cardinality(RowsByPhone(users, p)) <= 1

\* C1: in the upsert (token) variant, a GET /me whose select runs after a
\* PUT /me wrote the row of the same phone, with no other write in between,
\* answers 200 with a profile of that phone whose four patchable fields are
\* the patch's values, null for the fields the patch omits.
C1_RoundTrip ==
    (/\ variant = "token"
     /\ Answered /\ reply.route = "GET /me" /\ reply.status = 200
     /\ reply.seen.w = "put")
    => /\ reply.body # Null
       /\ reply.body.phone = reply.stmt.phone
       /\ CarriesPatch(reply.body, reply.seen.patch)

\* C1 witness: a GET after PatchB replaced an older row (written before).
C1_Witness ==
    /\ variant = "token"
    /\ Answered /\ reply.route = "GET /me" /\ reply.status = 200
    /\ reply.seen.w = "put" /\ reply.seen.patch = PatchB
    /\ reply.body # Null
    /\ reply.body.created_at < reply.body.updated_at

\* C2: in the upsert variant, a PUT /me that starts after an earlier PUT /me
\* for the same phone was answered leaves exactly one row for the phone, the
\* row it answers with: it carries this patch, keeps the id and createdAt the
\* earlier answer had, and its updatedAt is strictly greater.
C2_SecondPutWins ==
    (/\ variant = "token"
     /\ Answered /\ reply.route = "PUT /me" /\ reply.status = 200
     /\ reply.prev # Null)
    => /\ reply.body # Null
       /\ RowsByPhone(users, reply.stmt.phone) = {reply.body}
       /\ CarriesPatch(reply.body, reply.patch)
       /\ reply.body.id = reply.prev.id
       /\ reply.body.created_at = reply.prev.created_at
       /\ reply.body.updated_at > reply.prev.updated_at

\* C2 witness: the second PUT carries another patch than the first.
C2_Witness ==
    /\ variant = "token"
    /\ Answered /\ reply.route = "PUT /me" /\ reply.status = 200
    /\ reply.prev # Null
    /\ ~CarriesPatch(reply.prev, reply.patch)

\* C3: GET /me never writes: the step that answers a GET /me leaves the table
\* and its sequence as they were; when its select ran and no row has the
\* resolved phone it answers 200 with null (at every GET, however many came
\* before).
C3_GetReadsOnly ==
    /\ []((Answered /\ reply.route = "GET /me")
            => /\ ~reply.wrote
               /\ (reply.nQuery = 1 /\ reply.err = "none") => reply.status = 200
               /\ (reply.status = 200 /\ RowsByPhone(users, reply.stmt.phone) = {})
                     => reply.body = Null)
    /\ [][(reply'.pc = "done" /\ reply'.route = "GET /me")
            => users' = users /\ users_id_seq' = users_id_seq]_vars

\* C3 witness: a GET answered null while the table holds other rows.
C3_Witness ==
    /\ Answered /\ reply.route = "GET /me" /\ reply.status = 200
    /\ reply.body = Null
    /\ users # {}

\* C4: in the upsert variant, under every interleaving of PUT /me requests
\* each row and each PUT answer carries the four fields of one patch, no
\* phone has two rows, and no PUT fails on the unique constraint.
C4_NoMixedRow ==
    variant = "token"
    => /\ \A u \in users : \E P \in Patches : CarriesPatch(u, P)
       /\ UniquePhones
       /\ (Answered /\ reply.route = "PUT /me")
            => /\ reply.err # "unique_violation"
               /\ reply.status = 200
                    => reply.body # Null /\ CarriesPatch(reply.body, reply.patch)

\* C4 witness: a PUT that started when no PUT had been answered for its
\* phone and ran after a concurrent PUT with another patch wrote the row.
C4_Witness ==
    /\ variant = "token"
    /\ Answered /\ reply.route = "PUT /me" /\ reply.status = 200
    /\ reply.prev = Null
    /\ reply.seen.w = "put" /\ reply.seen.patch # reply.patch

\* C5: with AUTH_REQUIRED, a /me request without a bearer credential is
\* answered 401 missing_token and the verifier is not called; one whose
\* credential the verifier rejects is answered 401 invalid_token; in both
\* cases the handler does not run, the store is not touched and one response
\* is sent. No request reaches the store without a resolved credential.
C5_Unauthenticated ==
    Verified
    => /\ (Answered /\ IsMe(reply) /\ ~HasCredential(reply.authorization))
            => /\ reply.status = 401 /\ reply.body = Err("missing_token")
               /\ reply.nVerify = 0
               /\ Quiet(reply)
       /\ (Answered /\ IsMe(reply) /\ reply.verdict = "rejected")
            => /\ reply.status = 401 /\ reply.body = Err("invalid_token")
               /\ Quiet(reply)
       /\ \A i \in Slots :
            req[i].pc = "xact"
            => HasCredential(req[i].authorization) /\ req[i].verdict = "resolved"

\* C5 witness: a PUT without a credential rejected while the table has rows.
C5_Witness ==
    /\ Verified
    /\ Answered /\ reply.route = "PUT /me"
    /\ ~HasCredential(reply.authorization)
    /\ reply.status = 401
    /\ users # {}

\* C6: every failure kind of /me has one status: 400 only for a missing
\* phone field where the caller supplies the phone; with AUTH_REQUIRED a
\* missing token, a rejected token and a verified token without a phone
\* claim are all answered 401; a store failure is answered 500 with the
\* handler's error and nothing written.
C6_OneStatusPerFailure ==
    (Answered /\ IsMe(reply))
    => /\ reply.status = 400 => (~Verified /\ Falsy(reply.phone))
       /\ (Verified /\ (\/ ~HasCredential(reply.authorization)
                         \/ reply.verdict = "rejected"
                         \/ (reply.verdict = "resolved"
                               /\ Falsy(reply.auth.phone_number)
                               /\ Falsy(reply.auth.phoneNumber))))
            => reply.status = 401
       /\ reply.err # "none"
            => /\ reply.status = 500 /\ reply.body = CatchError(reply.route)
               /\ ~reply.wrote

\* C7: no two rows share a phone, updatedAt >= createdAt in every row, and a
\* row once created stays, with its id, phone and createdAt.
C7_TableInvariants ==
    /\ [](UniquePhones /\ \A u \in users : u.updated_at >= u.created_at)
    /\ [][\A u \in users :
            \E v \in users' :
                v.id = u.id /\ v.phone = u.phone /\ v.created_at = u.created_at]_vars

\* C8: in every variant a PUT /me whose phone resolved and whose store call
\* succeeded answers 200 with a profile of that phone, and the phone has a
\* row.
C8_PutAnswersProfile ==
    (Answered /\ reply.route = "PUT /me" /\ reply.nQuery = 1 /\ reply.err = "none")
    => /\ reply.status = 200
       /\ reply.body # Null
       /\ reply.body.phone = reply.stmt.phone
       /\ RowsByPhone(users, reply.stmt.phone) # {}

\* C9: in the OTP variant, once /auth/verify answered a user for the phone
\* string p, a GET /me or PUT /me with the same string p that the store
\* served answers the profile, not null.
C9_VerifiedPhoneFindsRow ==
    (/\ variant = "otp"
     /\ Answered /\ IsMe(reply) /\ reply.status = 200
     /\ reply.phone \in approved)
    => reply.body # Null

\* Two requests are treated alike when they differ in nothing but the phone
\* the caller supplied.
AlikeButCallerPhone(X, Y) == [X EXCEPT !.phone = Undefined] = [Y EXCEPT !.phone = Undefined]

\* C10: with AUTH_REQUIRED the statement of a /me request is keyed by the
\* phone claim of its token, the handler does the same whatever phone the
\* caller supplies, and a step changes only rows of the phone claimed by the
\* token of the request it answers.
C10_TokenDecidesRow ==
    /\ [](Verified
            => /\ \A i \in Slots :
                    req[i].pc = "xact"
                    => req[i].stmt.phone = PhoneClaim(req[i].authorization)
               /\ (Answered /\ reply.nQuery > 0)
                    => reply.stmt.phone = PhoneClaim(reply.authorization)
               /\ \A i \in Slots :
                    (req[i].pc = "verifying" /\ req[i].token.t = "string")
                    => \A d \in DecodedClaims(req[i].token.s), q \in CallerPhones :
                         AlikeButCallerPhone(
                             EnterHandler([req[i] EXCEPT !.auth = d, !.phone = q]),
                             EnterHandler([req[i] EXCEPT !.auth = d])))
    /\ [][Verified
            => \A u \in (users' \ users) \cup (users \ users') :
                 reply'.pc = "done" /\ u.phone = PhoneClaim(reply'.authorization)]_vars

\* C10 witness: a PUT whose caller supplied another phone than its token's.
C10_Witness ==
    /\ Verified
    /\ Answered /\ reply.route = "PUT /me" /\ reply.status = 200
    /\ reply.phone = Str(<<"6">>)
    /\ reply.body # Null
    /\ reply.body.phone = Str(<<"+", "6">>)

====
